---------------------------- MODULE Spec2Model ----------------------------
(***************************************************************************)
(* Model of src/src/pages/index.tsx (the node-edit modal of jsoncrack):    *)
(* normalizeNodeData, getValueAtPath, setValueAtPath, pathEquals and the   *)
(* handleSave handler with its deferred re-selection callback.             *)
(*                                                                         *)
(* JavaScript values are tagged records.  Objects and arrays live in a     *)
(* heap (address -> container) so that identity, sharing and in-place      *)
(* assignment are visible.  A container is a property map keyed by the     *)
(* property-key STRING (a numeric segment n addresses the key String(n),   *)
(* as in JavaScript) plus, for arrays, the length.                         *)
(*                                                                         *)
(* Outside the model: property names with built-in meaning ("length",      *)
(* "__proto__", prototype members), insertion order of object keys, the    *)
(* whitespace of serialized text, and the modal's `opened` prop (the       *)
(* parent's onClose): the modal is taken to be open.                       *)
(***************************************************************************)
EXTENDS Integers, Sequences, FiniteSets, TLC

VARIABLES
  \* ---- the editor (stores useJson / useGraph and the modal's state) ----
  json,          \* useJson: the document text
  selectedNode,  \* useGraph: state.selectedNode (nodeData)
  nodes,         \* useGraph: state.nodes, an ordered collection
  error,         \* the modal's error state
  isEditing,     \* the modal's isEditing state
  typable,       \* the texts the user types into the textarea in this behaviour
  timers,        \* pending setTimeout callbacks, each holding its nodeData
  saves,         \* number of handleSave calls so far (bounded)
  fired,         \* number of deferred callbacks that have run
  last,          \* history: what the latest step was and what it started from
  \* ---- harness for setValueAtPath / getValueAtPath ----
  heap,          \* address -> container
  root,          \* argument root (a value, possibly a reference)
  path,          \* argument path
  value,         \* argument value
  result,        \* returned root
  heap0,         \* history: the heap when setValueAtPath was called
  mut,           \* history: the in-place assignment made after the call
  pc,            \* "ready" | "done" | "mutated" | "idle"
  \* ---- harness for normalizeNodeData ----
  rows,          \* argument nodeRows
  text           \* returned text

vars == <<json, selectedNode, nodes, error, isEditing, typable, timers, saves, fired, last,
          heap, root, path, value, result, heap0, mut, pc, rows, text>>
editorVars == <<json, selectedNode, nodes, error, isEditing, typable, timers, saves, fired, last>>
setVars == <<heap, root, path, value, result, heap0, mut, pc>>
normVars == <<rows, text>>

(***************************************************************************)
(* Bounds of the model.                                                    *)
(***************************************************************************)
MaxPathLen == 2     \* longest path drawn as an input
MaxSaves == 2       \* handleSave calls in one behaviour
MaxRows == 2        \* longest row list drawn as an input of normalizeNodeData

(***************************************************************************)
(* JavaScript values.                                                      *)
(***************************************************************************)
Undefined == [t |-> "undefined"]
Null == [t |-> "null"]
Bool(b) == [t |-> "boolean", b |-> b]
Num(n) == [t |-> "number", n |-> n]
Str(s) == [t |-> "string", s |-> s]
Ref(a) == [t |-> "ref", a |-> a]

\* String(n) for the array indices of the model: Digits[n + 1].
Digits == <<"0", "1", "2", "3", "4", "5", "6", "7", "8", "9">>
IsIndexKey(k) == \E i \in 1..Len(Digits) : Digits[i] = k
IndexOf(k) == (CHOOSE i \in 1..Len(Digits) : Digits[i] = k) - 1
\* The characters of the string primitives of the model.
CharsOf(s) ==
  CASE s = "hi" -> <<"h", "i">>
    [] s = "" -> <<>>
    [] OTHER -> <<s>>

NoProps == [k \in {} |-> Undefined]
Props1(k, v) == [x \in {k} |-> v]
Props2(k1, v1, k2, v2) == [x \in {k1, k2} |-> IF x = k1 THEN v1 ELSE v2]
Props3(k1, v1, k2, v2, k3, v3) ==
  [x \in {k1, k2, k3} |-> IF x = k1 THEN v1 ELSE IF x = k2 THEN v2 ELSE v3]
\* Container contents: an object, and an array with the given elements.
ObjectOf(props) == [t |-> "object", length |-> 0, props |-> props]
ArrayOf(els) ==
  [t |-> "array", length |-> Len(els),
   props |-> [k \in {Digits[i] : i \in 1..Len(els)} |-> els[IndexOf(k) + 1]]]

\* A container as a tree (a JSON term, or a deep snapshot of heap contents).
IsContainer(v) == v.t \in {"object", "array"}
IsRef(v) == v.t = "ref"
\* cursor == null
IsNullish(v) == v.t \in {"undefined", "null"}

(***************************************************************************)
(* Path segments.  A segment keeps its JavaScript type (typeof seg) and    *)
(* the property key it addresses.                                          *)
(***************************************************************************)
NumSeg(n) == [num |-> TRUE, key |-> Digits[n + 1]]
StrSeg(s) == [num |-> FALSE, key |-> s]
\* path?: Array<string | number> | undefined
UndefinedPath == [defined |-> FALSE, segs |-> <<>>]
PathOf(segs) == [defined |-> TRUE, segs |-> segs]
KeysOf(segs) == [i \in 1..Len(segs) |-> segs[i].key]

(***************************************************************************)
(* The heap.                                                               *)
(***************************************************************************)
Addr(region, keys) == [r |-> region, p |-> keys]
NoHeap == [a \in {} |-> ObjectOf(NoProps)]
Store(h, a, c) == [x \in DOMAIN h \cup {a} |-> IF x = a THEN c ELSE h[x]]

RECURSIVE ContainerPaths(_)
ContainerPaths(term) ==
  IF IsContainer(term)
  THEN {<<>>} \cup UNION {{<<k>> \o q : q \in ContainerPaths(term.props[k])} :
                           k \in DOMAIN term.props}
  ELSE {}

RECURSIVE SubTerm(_, _)
SubTerm(term, keys) ==
  IF keys = <<>> THEN term ELSE SubTerm(term.props[Head(keys)], Tail(keys))

\* Builds the objects of a tree in the heap (what JSON.parse or an object
\* literal does): one container per object/array of the tree, under fresh
\* addresses of `region`.
Alloc(region, term) ==
  LET shallow(q) ==
        LET c == SubTerm(term, q)
        IN [t |-> c.t, length |-> c.length,
            props |-> [k \in DOMAIN c.props |->
                         IF IsContainer(c.props[k])
                         THEN Ref(Addr(region, Append(q, k)))
                         ELSE c.props[k]]]
  IN [h |-> [a \in {Addr(region, q) : q \in ContainerPaths(term)} |-> shallow(a.p)],
      v |-> IF IsContainer(term) THEN Ref(Addr(region, <<>>)) ELSE term]

\* The tree a value denotes (a deep snapshot).
RECURSIVE Deep(_, _)
Deep(h, v) ==
  IF IsRef(v)
  THEN [t |-> h[v.a].t, length |-> h[v.a].length,
        props |-> [k \in DOMAIN h[v.a].props |-> Deep(h, h[v.a].props[k])]]
  ELSE v

\* The addresses reachable from a value.
RECURSIVE Reach(_, _)
Reach(h, v) ==
  IF IsRef(v)
  THEN {v.a} \cup UNION {Reach(h, h[v.a].props[k]) : k \in DOMAIN h[v.a].props}
  ELSE {}

(***************************************************************************)
(* Property access and assignment.                                         *)
(***************************************************************************)
\* v[key] for a non-nullish v.
GetProp(h, v, key) ==
  CASE IsRef(v) ->
         IF key \in DOMAIN h[v.a].props THEN h[v.a].props[key] ELSE Undefined
    [] v.t = "string" ->
         IF IsIndexKey(key) /\ IndexOf(key) < Len(CharsOf(v.s))
         THEN Str(CharsOf(v.s)[IndexOf(key) + 1])
         ELSE Undefined
    [] OTHER -> Undefined

\* h after  obj[key] = v  for the container at address a.
SetProp(h, a, key, v) ==
  LET c == h[a]
      len == IF c.t = "array" /\ IsIndexKey(key) /\ IndexOf(key) >= c.length
             THEN IndexOf(key) + 1
             ELSE c.length
  IN [h EXCEPT ![a] =
        [t |-> c.t, length |-> len,
         props |-> [k \in DOMAIN c.props \cup {key} |->
                      IF k = key THEN v ELSE c.props[k]]]]

\* Array.isArray(v)
IsArray(h, v) == IsRef(v) /\ h[v.a].t = "array"

\* The contents of  Array.isArray(v) ? [...v] : { ...v }
ShallowCopy(h, v) ==
  CASE IsArray(h, v) ->
         [t |-> "array", length |-> h[v.a].length,
          props |-> [k \in {Digits[i] : i \in 1..h[v.a].length} |->
                       GetProp(h, v, k)]]
    [] IsRef(v) -> ObjectOf(h[v.a].props)
    [] v.t = "string" ->
         ObjectOf([k \in {Digits[i] : i \in 1..Len(CharsOf(v.s))} |->
                     Str(CharsOf(v.s)[IndexOf(k) + 1])])
    [] OTHER -> ObjectOf(NoProps)

(***************************************************************************)
(* getValueAtPath (lines 40-48).                                           *)
(***************************************************************************)
RECURSIVE GetWalk(_, _, _)
GetWalk(h, cursor, segs) ==
  IF segs = <<>> THEN cursor
  ELSE IF IsNullish(cursor) THEN Undefined
  ELSE GetWalk(h, GetProp(h, cursor, Head(segs).key), Tail(segs))

getValueAtPath(h, r, p) ==
  IF ~p.defined \/ Len(p.segs) = 0 THEN r ELSE GetWalk(h, r, p.segs)

(***************************************************************************)
(* setValueAtPath (lines 50-69).  Objects it creates get the addresses     *)
(* Addr("set", <keys of the path prefix they stand at>).                   *)
(***************************************************************************)
\* line 54: const rootClone = Array.isArray(root) ? [...root] : { ...root }
RootClone_Alias(h, r, a) == IF IsRef(r) THEN [h |-> h, v |-> r]
                            ELSE [h |-> Store(h, a, ShallowCopy(h, r)), v |-> Ref(a)]
RootClone(h, r, a) == [h |-> Store(h, a, ShallowCopy(h, r)), v |-> Ref(a)]

\* line 62: Array.isArray(cursor[seg]) ? [...cursor[seg]] : { ...cursor[seg] }
SegClone_Alias(h, v, a) == IF IsRef(v) THEN [h |-> h, v |-> v]
                           ELSE [h |-> Store(h, a, ShallowCopy(h, v)), v |-> Ref(a)]
SegClone_Empty(h, v, a) == [h |-> Store(h, a, ObjectOf(NoProps)), v |-> Ref(a)]
SegClone(h, v, a) == [h |-> Store(h, a, ShallowCopy(h, v)), v |-> Ref(a)]

\* line 60: typeof nextSeg === "number" ? [] : {}
Materialize(h, nextSeg, a) ==
  [h |-> Store(h, a, IF nextSeg.num THEN ArrayOf(<<>>) ELSE ObjectOf(NoProps)),
   v |-> Ref(a)]

\* line 66: const last = path[path.length - 1]
LastSeg_First(segs) == segs[1]
LastSeg(segs) == segs[Len(segs)]

\* lines 56-65: the loop from index i (1-based) on; returns the heap and the cursor.
RECURSIVE SetWalk(_, _, _, _)
SetWalk(h, cursor, segs, i) ==
  IF i > Len(segs) - 1 THEN [h |-> h, cursor |-> cursor]
  ELSE
    LET seg == segs[i]
        cur == GetProp(h, cursor, seg.key)
        a == Addr("set", KeysOf(SubSeq(segs, 1, i)))
        made == IF IsNullish(cur) THEN Materialize(h, segs[i + 1], a)
                ELSE SegClone(h, cur, a)
        h2 == SetProp(made.h, cursor.a, seg.key, made.v)
    IN SetWalk(h2, GetProp(h2, cursor, seg.key), segs, i + 1)

\* Returns [h |-> the heap after the call, v |-> the returned root].
setValueAtPath(h, r, p, v) ==
  IF ~p.defined \/ Len(p.segs) = 0 THEN [h |-> h, v |-> v]
  ELSE
    LET rc == RootClone(h, r, Addr("set", <<>>))
        w == SetWalk(rc.h, rc.v, p.segs, 1)
    IN [h |-> SetProp(w.h, w.cursor.a, LastSeg(p.segs).key, v), v |-> rc.v]

(***************************************************************************)
(* Inputs of the setValueAtPath harness.                                   *)
(***************************************************************************)
Segs == {NumSeg(0), NumSeg(2), StrSeg("a"), StrSeg("x"), StrSeg("0")}

RECURSIVE SeqsUpTo(_, _)
SeqsUpTo(S, n) ==
  IF n = 0 THEN {<<>>}
  ELSE LET shorter == SeqsUpTo(S, n - 1)
       IN shorter \cup {Append(q, s) : q \in shorter, s \in S}

Paths == {PathOf(q) : q \in SeqsUpTo(Segs, MaxPathLen)}

RootTerms ==
  { Null, Undefined, Num(1), Str("hi"),
    ObjectOf(NoProps), ArrayOf(<<>>),
    ObjectOf(Props2("a", ObjectOf(Props2("x", Num(1), "a", Num(2))),
                    "x", ArrayOf(<<Num(1), ObjectOf(Props1("x", Num(1)))>>))),
    ArrayOf(<<ObjectOf(Props1("a", Num(1))), ArrayOf(<<Num(1), Num(2)>>)>>),
    ObjectOf(Props3("a", Null, "x", Str("hi"), "0", ObjectOf(Props1("0", Num(1))))) }

ValueTerms == { Num(7), Null, ObjectOf(Props1("x", Num(7))) }

InitSet ==
  /\ \E rt \in RootTerms, vt \in ValueTerms :
       LET ra == Alloc("root", rt)
           va == Alloc("value", vt)
       IN /\ root = ra.v
          /\ \/ value = va.v /\ heap = ra.h @@ va.h
             \/ \E a \in DOMAIN ra.h : vt = Null /\ value = Ref(a) /\ heap = ra.h
  /\ path \in Paths
  /\ result = Undefined
  /\ heap0 = heap
  /\ mut = [a |-> Addr("none", <<>>), key |-> "", onPath |-> FALSE]
  /\ pc = "ready"
  /\ json = [kind |-> "raw", s |-> ""] /\ selectedNode = Undefined /\ nodes = <<>>
  /\ error = Null /\ isEditing = FALSE /\ typable = {}
  /\ timers = <<>> /\ saves = 0 /\ fired = 0 /\ last = [op |-> "none"]
  /\ rows = <<>> /\ text = [kind |-> "raw", s |-> ""]

\* The value standing at the first i segments of segs under r.
PrefixValue(h, r, segs, i) == getValueAtPath(h, r, PathOf(SubSeq(segs, 1, i)))
\* The containers that hold the path under r: r itself and the value at every
\* proper prefix of segs.
Holders(h, r, segs) == {PrefixValue(h, r, segs, i) : i \in 0..(Len(segs) - 1)}
HolderAddrs(h, r, segs) == {v.a : v \in {x \in Holders(h, r, segs) : IsRef(x)}}

\* Neither sequence of segments is a prefix of the other, two segments being
\* the same when they address the same property key.
IsKeyPrefix(p, q) ==
  Len(p) <= Len(q) /\ \A i \in 1..Len(p) : p[i].key = q[i].key
KeyDisjoint(p, q) == ~IsKeyPrefix(p, q) /\ ~IsKeyPrefix(q, p)
\* The same, two segments being the same when equal as JavaScript values.
IsPrefix(p, q) == Len(p) <= Len(q) /\ \A i \in 1..Len(p) : p[i] = q[i]
Disjoint(p, q) == ~IsPrefix(p, q) /\ ~IsPrefix(q, p)

\* newRoot = setValueAtPath(root, path, value)
CallSet ==
  /\ pc = "ready"
  /\ LET r == setValueAtPath(heap, root, path, value)
     IN heap' = r.h /\ result' = r.v
  /\ pc' = "done"
  /\ UNCHANGED <<root, path, value, heap0, mut, editorVars, normVars>>

\* A caller assigns into a container reachable from the returned root.
MutKeys == {"x", "0", "q"}
Mutate ==
  /\ pc = "done"
  /\ \E a \in Reach(heap, result), k \in MutKeys :
       /\ heap' = SetProp(heap, a, k, Num(9))
       /\ mut' = [a |-> a, key |-> k, onPath |-> a \in HolderAddrs(heap, result, path.segs)]
  /\ pc' = "mutated"
  /\ UNCHANGED <<root, path, value, result, heap0, editorVars, normVars>>

NextSet == CallSet \/ Mutate
SpecSet == InitSet /\ [][NextSet]_vars

(***************************************************************************)
(* Properties of setValueAtPath / getValueAtPath, checked under SpecSet.   *)
(***************************************************************************)
\* The path resolves in the input root: reading it yields a value.
Resolves(h, r, p) == getValueAtPath(h, r, p) # Undefined

\* C4: write-then-read round trip: for a path that resolves in root,
\* getValueAtPath(setValueAtPath(root, P, V), P) is V.
C4_RoundTrip ==
  (pc = "done" /\ Resolves(heap0, root, path))
    => getValueAtPath(heap, result, path) = value
C4_Witness ==
  /\ pc = "done" /\ Resolves(heap0, root, path) /\ Len(path.segs) = 2
  /\ IsRef(value) /\ path.segs[1] # path.segs[2]

\* C5: setValueAtPath does not mutate its input: after a call with a
\* non-empty path every container reachable from the input root is what it
\* was, and every container holding the path under the returned root is a
\* container that is not one of the input root's.
C5_NoMutation ==
  (pc = "done" /\ Len(path.segs) > 0)
    => /\ \A a \in Reach(heap0, root) : heap[a] = heap0[a]
       /\ \A v \in Holders(heap, result, path.segs) :
            IsRef(v) /\ v.a \notin Reach(heap0, root)
C5_Witness ==
  /\ pc = "done" /\ Len(path.segs) = 2
  /\ IsRef(root) /\ IsRef(GetProp(heap0, root, path.segs[1].key))
  /\ Deep(heap, result) # Deep(heap0, root)

\* C6 as stated: after newRoot = setValueAtPath(root, path, V), an in-place
\* assignment into newRoot (into any container reachable from it) changes
\* no value reachable from root at a path disjoint from the written path.
\* Stated here for a V that shares nothing with root.
C6_Original ==
  (pc = "mutated" /\ Reach(heap0, value) \cap Reach(heap0, root) = {})
    => \A q \in SeqsUpTo(Segs, MaxPathLen) :
         KeyDisjoint(path.segs, q)
           => Deep(heap, getValueAtPath(heap, root, PathOf(q)))
                = Deep(heap0, getValueAtPath(heap0, root, PathOf(q)))

\* C6 as amended: an in-place assignment into a container that holds the
\* written path under newRoot changes no value reachable from root.
C6_NonAliasing ==
  (pc = "mutated" /\ mut.onPath)
    => /\ \A a \in Reach(heap0, root) : heap[a] = heap0[a]
       /\ Deep(heap, root) = Deep(heap0, root)
C6_Witness ==
  /\ pc = "mutated" /\ mut.onPath /\ Len(path.segs) = 2
  /\ IsRef(root) /\ mut.a # result.a
  /\ IsRef(GetProp(heap0, root, path.segs[1].key))

\* C8 as stated: for a root that is not a container and a non-empty path the
\* call returns an object when the first segment is a string and an array
\* when it is a number, and every missing or null intermediate segment
\* becomes an array when the following segment is a number and an object
\* otherwise.
MaterializedRight(h0, r, h, res, segs) ==
  \A i \in 1..(Len(segs) - 1) :
    IsNullish(PrefixValue(h0, r, segs, i))
      => LET made == PrefixValue(h, res, segs, i)
         IN IsRef(made) /\ (h[made.a].t = "array" <=> segs[i + 1].num)
C8_LazyRoot ==
  (pc = "done" /\ ~IsRef(root) /\ Len(path.segs) > 0)
    => /\ IsRef(result)
       /\ heap[result.a].t = "array" <=> path.segs[1].num
       /\ MaterializedRight(heap0, root, heap, result, path.segs)
\* The second half of C8 alone, for every root.
C8_Intermediate ==
  (pc = "done" /\ Len(path.segs) > 0)
    => MaterializedRight(heap0, root, heap, result, path.segs)

(***************************************************************************)
(* Texts.  A text is either the serialization of a JSON term (whitespace   *)
(* and key order abstracted) or some other string, kept verbatim.          *)
(***************************************************************************)
JsonText(term) == [kind |-> "json", term |-> term]
RawText(s) == [kind |-> "raw", s |-> s]

\* The strings of the model that are JSON literals, with what they parse to.
LiteralOf(s) ==
  CASE s = "null" -> Null
    [] s = "true" -> Bool(TRUE)
    [] s = "false" -> Bool(FALSE)
    [] IsIndexKey(s) -> Num(IndexOf(s))
    [] OTHER -> Undefined
\* The text with the characters s.
TextOfString(s) ==
  IF LiteralOf(s) # Undefined THEN JsonText(LiteralOf(s)) ELSE RawText(s)

\* JSON.parse(text): ok is FALSE when it throws a SyntaxError.
JSONparse(txt) ==
  IF txt.kind = "json" THEN [ok |-> TRUE, term |-> txt.term]
  ELSE [ok |-> FALSE, term |-> Undefined]

\* The term JSON.stringify serializes for a value: an undefined array element
\* (or hole) is written null, an undefined object member and any non-index
\* property of an array are left out.
RECURSIVE Stringify(_, _)
Stringify(h, v) ==
  CASE IsArray(h, v) ->
         [t |-> "array", length |-> h[v.a].length,
          props |-> [k \in {Digits[i] : i \in 1..h[v.a].length} |->
                       IF GetProp(h, v, k) = Undefined THEN Null
                       ELSE Stringify(h, GetProp(h, v, k))]]
    [] IsRef(v) /\ ~IsArray(h, v) ->
         ObjectOf([k \in {x \in DOMAIN h[v.a].props : h[v.a].props[x] # Undefined} |->
                     Stringify(h, h[v.a].props[k])])
    [] OTHER -> v

\* String(v), as a template literal `${v}` computes it.
RECURSIVE StringOf(_)
JoinFrom(term, i) ==
  LET el(j) == IF IsNullish(term.props[Digits[j]]) THEN ""
               ELSE StringOf(term.props[Digits[j]])
      F[j \in i..term.length] ==
        IF j = term.length THEN el(j) ELSE el(j) \o "," \o F[j + 1]
  IN IF term.length = 0 THEN "" ELSE F[i]
StringOf(term) ==
  CASE term.t = "null" -> "null"
    [] term.t = "undefined" -> "undefined"
    [] term.t = "boolean" -> IF term.b THEN "true" ELSE "false"
    [] term.t = "number" -> Digits[term.n + 1]
    [] term.t = "string" -> term.s
    [] term.t = "array" -> JoinFrom(term, 1)
    [] OTHER -> "[object Object]"

(***************************************************************************)
(* normalizeNodeData (lines 21-32).  A row is [key, value, type]; an       *)
(* absent key is undefined.                                                *)
(***************************************************************************)
\* !row.key
NoKey(row) == row.key = Undefined \/ row.key = Null \/ row.key = Str("")

\* lines 25-30: the object the rows are folded into, later rows overwriting.
RECURSIVE RowsObject(_)
RowsObject(nodeRows) ==
  IF nodeRows = <<>> THEN NoProps
  ELSE LET init == RowsObject(SubSeq(nodeRows, 1, Len(nodeRows) - 1))
           row == nodeRows[Len(nodeRows)]
       IN IF row.type # "array" /\ row.type # "object" /\ ~NoKey(row)
          THEN [k \in DOMAIN init \cup {row.key.s} |->
                  IF k = row.key.s THEN row.value ELSE init[k]]
          ELSE init

\* line 23: `${nodeRows[0].value}`
SingleRowText(row) == TextOfString(StringOf(row.value))

normalizeNodeData(nodeRows) ==
  IF Len(nodeRows) = 0 THEN JsonText(ObjectOf(NoProps))
  ELSE IF Len(nodeRows) = 1 /\ NoKey(nodeRows[1]) THEN SingleRowText(nodeRows[1])
  ELSE LET obj == Alloc("obj", ObjectOf(RowsObject(nodeRows)))
       IN JsonText(Stringify(obj.h, obj.v))

TypeTag(term) == term.t
RowOf(key, term) == [key |-> key, value |-> term, type |-> TypeTag(term)]
RowKeys == {Undefined, Str(""), Str("a"), Str("x")}
RowValues ==
  { Null, Num(1), Bool(TRUE), Str("hi"),
    ArrayOf(<<Num(1)>>), ArrayOf(<<Num(1), Num(2)>>), ObjectOf(Props1("x", Num(1))) }
Rows == {RowOf(k, v) : k \in RowKeys, v \in RowValues}

InitNorm ==
  /\ rows \in SeqsUpTo(Rows, MaxRows)
  /\ text = RawText("")
  /\ pc = "ready"
  /\ heap = NoHeap /\ root = Undefined /\ path = UndefinedPath /\ value = Undefined
  /\ result = Undefined /\ heap0 = NoHeap
  /\ mut = [a |-> Addr("none", <<>>), key |-> "", onPath |-> FALSE]
  /\ json = RawText("") /\ selectedNode = Undefined /\ nodes = <<>> /\ error = Null
  /\ isEditing = FALSE /\ typable = {}
  /\ timers = <<>> /\ saves = 0 /\ fired = 0 /\ last = [op |-> "none"]

\* text = normalizeNodeData(rows)
CallNormalize ==
  /\ pc = "ready"
  /\ text' = normalizeNodeData(rows)
  /\ pc' = "done"
  /\ UNCHANGED <<rows, heap, root, path, value, result, heap0, mut, editorVars>>

NextNorm == CallNormalize
SpecNorm == InitNorm /\ [][NextNorm]_vars

\* The value the claim reconstructs from the rows.
Reconstructed(nodeRows) ==
  IF Len(nodeRows) = 0 THEN ObjectOf(NoProps)
  ELSE IF Len(nodeRows) = 1 /\ nodeRows[1].key = Undefined THEN nodeRows[1].value
  ELSE ObjectOf(
         LET keyed == {i \in 1..Len(nodeRows) :
                         /\ nodeRows[i].key # Undefined
                         /\ nodeRows[i].type \notin {"array", "object"}}
             lastOf(k) == CHOOSE i \in keyed :
                            /\ nodeRows[i].key.s = k
                            /\ \A j \in keyed : nodeRows[j].key.s = k => j <= i
         IN [k \in {nodeRows[i].key.s : i \in keyed} |-> nodeRows[lastOf(k)].value])

\* C9 as stated: the text normalizeNodeData returns parses as JSON to the
\* value reconstructed from the rows, whatever the type of a single keyless
\* row's value.
C9_RoundTrip ==
  pc = "done"
    => /\ JSONparse(text).ok
       /\ JSONparse(text).term = Reconstructed(rows)
\* The same with a single keyless row restricted to null, boolean or number
\* and no row keyed "".
C9_ScalarsOnly ==
  (/\ pc = "done"
   /\ ~(Len(rows) = 1 /\ rows[1].key = Undefined
        /\ rows[1].type \in {"string", "array", "object"})
   /\ \A i \in 1..Len(rows) : rows[i].key # Str(""))
    => /\ JSONparse(text).ok
       /\ JSONparse(text).term = Reconstructed(rows)

(***************************************************************************)
(* pathEquals (lines 71-76).                                               *)
(***************************************************************************)
\* v === b[i] for two segments
StrictEquals_Loose(x, y) == x.key = y.key
StrictEquals(x, y) == x.num = y.num /\ x.key = y.key

pathEquals(a, b) ==
  IF ~a.defined /\ ~b.defined THEN TRUE
  ELSE IF ~a.defined \/ ~b.defined THEN FALSE
  ELSE IF Len(a.segs) # Len(b.segs) THEN FALSE
  ELSE \A i \in 1..Len(a.segs) : StrictEquals(a.segs[i], b.segs[i])

(***************************************************************************)
(* The modal (lines 78-156).  A node is [path, text]; no selected node is  *)
(* undefined.                                                              *)
(***************************************************************************)
NodeOf(p, nodeRows) == [path |-> p, text |-> nodeRows]
\* nodeData?.text ?? []
RowsOfNode(node) == IF node = Undefined THEN <<>> ELSE node.text

\* The messages of lines 146 and 109 (the dash of line 146 is written "-").
InvalidJson == Str("Invalid JSON - please fix syntax before saving")
NoTarget == Str("No target node selected")

\* lines 97-111 and 145-146: the error a save ends with, null when it succeeds.
SaveError_NodeFirst(edited, node) ==
  IF node = Undefined THEN NoTarget
  ELSE IF ~JSONparse(edited).ok THEN InvalidJson
  ELSE Null
SaveError(edited, node) ==
  IF ~JSONparse(edited).ok THEN InvalidJson
  ELSE IF node = Undefined THEN NoTarget
  ELSE Null

\* lines 100-106: the working root, {} when the document does not parse.
RootObjOf_ArrayFallback(doc) ==
  IF JSONparse(doc).ok THEN JSONparse(doc).term ELSE ArrayOf(<<>>)
RootObjOf(doc) ==
  IF JSONparse(doc).ok THEN JSONparse(doc).term ELSE ObjectOf(NoProps)

\* typeof v === "object" && v !== null && !Array.isArray(v)
IsPlainObject(h, v) == IsRef(v) /\ ~IsArray(h, v)

\* line 115: nodeRows.length === 1 && !nodeRows[0].key
IsBareNode(nodeRows) == Len(nodeRows) = 1 /\ NoKey(nodeRows[1])

\* line 122: { ...target, ...parsed }
Merged(h, target, parsed) ==
  ObjectOf([k \in DOMAIN h[target.a].props \cup DOMAIN h[parsed.a].props |->
              IF k \in DOMAIN h[parsed.a].props THEN h[parsed.a].props[k]
              ELSE h[target.a].props[k]])

\* lines 113-133: the text handed to setJson for a selected node and a parsed
\* edit.
NewDocument(doc, node, parsedTerm) ==
  LET d == Alloc("doc", RootObjOf(doc))
      e == Alloc("edit", parsedTerm)
      h == d.h @@ e.h
      rootObj == d.v
      parsed == e.v
      written(hh, v) == LET r == setValueAtPath(hh, rootObj, node.path, v)
                        IN JsonText(Stringify(r.h, r.v))
  IN IF IsBareNode(node.text) THEN written(h, parsed)
     ELSE LET target == getValueAtPath(h, rootObj, node.path)
          IN IF IsPlainObject(h, parsed) /\ IsPlainObject(h, target)
             THEN LET m == Addr("merged", <<>>)
                  IN written(Store(h, m, Merged(h, target, parsed)), Ref(m))
             ELSE written(h, parsed)

\* ---- inputs of the editor ----
BareRows == <<RowOf(Undefined, Num(1))>>
KeyedRows == <<RowOf(Str("x"), Num(1)), RowOf(Str("a"), Num(2))>>
\* The one member of an object such as {"": 1}: a row whose key is "".
EmptyKeyRows == <<RowOf(Str(""), Num(1))>>
NodeRowLists == {<<>>, BareRows, KeyedRows, EmptyKeyRows}
EditPaths == {PathOf(q) : q \in SeqsUpTo(Segs, 2)}
EditNodes == {NodeOf(p, r) : p \in EditPaths, r \in {BareRows, KeyedRows, EmptyKeyRows}}

CorruptDoc == RawText("{bad")
Docs ==
  { JsonText(ObjectOf(Props2("a", ObjectOf(Props2("x", Num(1), "a", Num(2))),
                             "x", ArrayOf(<<Num(1), ObjectOf(Props1("x", Num(1)))>>)))),
    JsonText(ArrayOf(<<ObjectOf(Props1("a", Num(1))), ArrayOf(<<Num(1), Num(2)>>)>>)),
    JsonText(ObjectOf(Props2("0", ObjectOf(Props1("x", Num(1))), "a", Str("hi")))),
    JsonText(Null),
    CorruptDoc }

EditTexts ==
  { RawText("{bad json"),
    JsonText(Num(7)),
    JsonText(ObjectOf(Props2("a", Num(3), "q", Num(4)))),
    JsonText(ArrayOf(<<Num(7)>>)) }

NodeCollections ==
  { << NodeOf(PathOf(<<StrSeg("0")>>), BareRows),
       NodeOf(PathOf(<<NumSeg(0)>>), BareRows),
       NodeOf(PathOf(<<StrSeg("a")>>), KeyedRows) >>,
    << NodeOf(PathOf(<<>>), KeyedRows),
       NodeOf(UndefinedPath, KeyedRows),
       NodeOf(PathOf(<<StrSeg("a"), StrSeg("x")>>), BareRows),
       NodeOf(PathOf(<<StrSeg("a")>>), BareRows) >>,
    << >> }

IdleHarness ==
  /\ heap = NoHeap /\ root = Undefined /\ path = UndefinedPath /\ value = Undefined
  /\ result = Undefined /\ heap0 = NoHeap
  /\ mut = [a |-> Addr("none", <<>>), key |-> "", onPath |-> FALSE]
  /\ pc = "idle" /\ rows = <<>> /\ text = RawText("")

InitEdit ==
  /\ json \in Docs
  /\ selectedNode \in EditNodes \cup {Undefined}
  /\ nodes = <<NodeOf(PathOf(<<StrSeg("a")>>), KeyedRows)>>
  /\ error = Null /\ isEditing = FALSE /\ typable = EditTexts
  /\ timers = <<>> /\ saves = 0 /\ fired = 0 /\ last = [op |-> "none"]
  /\ IdleHarness

\* line 84: originalText = useMemo(() => normalizeNodeData(nodeData?.text ?? []),
\* [nodeData]), memoized over the row lists of the model's nodes.
OriginalTexts == [r \in NodeRowLists |-> normalizeNodeData(r)]
originalText(node) == OriginalTexts[RowsOfNode(node)]

\* lines 90-94: the effect that runs when originalText changes.
EffectOnSelect(old, new) ==
  IF originalText(new) # originalText(old)
  THEN isEditing' = FALSE /\ error' = Null
  ELSE UNCHANGED <<isEditing, error>>

\* line 198: the Edit button
StartEdit ==
  /\ ~isEditing
  /\ isEditing' = TRUE
  /\ last' = [op |-> "edit"]
  /\ UNCHANGED <<json, selectedNode, nodes, error, typable, timers, saves, fired, setVars, normVars>>

\* lines 96-150: the Save button, with the textarea holding `edited`
handleSave(edited) ==
  /\ isEditing
  /\ saves < MaxSaves
  /\ LET err == SaveError(edited, selectedNode)
     IN /\ error' = err
        /\ IF err = Null
           THEN /\ json' = NewDocument(json, selectedNode, JSONparse(edited).term)
                /\ timers' = Append(timers, selectedNode)
                /\ isEditing' = FALSE
           ELSE UNCHANGED <<json, timers, isEditing>>
  /\ saves' = saves + 1
  /\ last' = [op |-> "save", json |-> json, node |-> selectedNode,
              text |-> edited, timers |-> timers]
  /\ UNCHANGED <<selectedNode, nodes, typable, fired, setVars, normVars>>

Save ==
  \E edited \in typable \cup {originalText(selectedNode)} :
    handleSave(edited)

\* lines 152-156: the Cancel button
handleCancel ==
  /\ isEditing
  /\ error' = Null
  /\ isEditing' = FALSE
  /\ last' = [op |-> "cancel"]
  /\ UNCHANGED <<json, selectedNode, nodes, typable, timers, saves, fired, setVars, normVars>>

\* lines 135-141: the callback handleSave deferred, run for the oldest timer
Reselect ==
  /\ timers # <<>>
  /\ LET nodeData == Head(timers)
         found == {i \in 1..Len(nodes) : pathEquals(nodes[i].path, nodeData.path)}
     IN IF found # {}
        THEN LET match == nodes[CHOOSE i \in found : \A j \in found : i <= j]
             IN selectedNode' = match /\ EffectOnSelect(selectedNode, match)
        ELSE UNCHANGED <<selectedNode, isEditing, error>>
  /\ timers' = Tail(timers)
  /\ fired' = fired + 1
  /\ last' = [op |-> "reselect", node |-> Head(timers), sel |-> selectedNode]
  /\ UNCHANGED <<json, nodes, typable, saves, setVars, normVars>>

NextEdit == StartEdit \/ Save \/ handleCancel \/ Reselect
Spec == InitEdit /\ [][NextEdit]_vars

\* ---- the view layer around the modal (useGraph), as the spec describes it:
\* ---- the node collection is rebuilt and nodes are selected at any time.
SelectNode ==
  /\ \E n \in {nodes[i] : i \in 1..Len(nodes)} \cup {Undefined} :
       /\ n # selectedNode
       /\ selectedNode' = n
       /\ EffectOnSelect(selectedNode, n)
  /\ last' = [op |-> "select"]
  /\ UNCHANGED <<json, nodes, typable, timers, saves, fired, setVars, normVars>>

SetNodes ==
  /\ \E c \in NodeCollections : c # nodes /\ nodes' = c
  /\ last' = [op |-> "rebuild"]
  /\ UNCHANGED <<json, selectedNode, error, isEditing, typable, timers, saves,
                 fired, setVars, normVars>>

LiveNodes ==
  { Undefined,
    NodeOf(PathOf(<<NumSeg(0)>>), BareRows),
    NodeOf(UndefinedPath, KeyedRows) }
LiveTexts == { RawText("{bad json"), JsonText(Num(7)) }

InitLive ==
  /\ json = JsonText(ObjectOf(Props2("0", ObjectOf(Props1("x", Num(1))), "a", Str("hi"))))
  /\ selectedNode \in LiveNodes
  /\ nodes \in NodeCollections
  /\ error = Null /\ isEditing = FALSE /\ typable = LiveTexts
  /\ timers = <<>> /\ saves = 0 /\ fired = 0 /\ last = [op |-> "none"]
  /\ IdleHarness

NextLive == StartEdit \/ Save \/ handleCancel \/ Reselect \/ SelectNode \/ SetNodes
\* setTimeout runs every callback it was given.
LiveSpec == InitLive /\ [][NextLive]_vars /\ WF_vars(Reselect)

(***************************************************************************)
(* Properties of handleSave, checked under Spec.                           *)
(***************************************************************************)
\* getValueAtPath on the tree of a term, as a tree.
ReadTerm(term, p) ==
  LET d == Alloc("read", term) IN Deep(d.h, getValueAtPath(d.h, d.v, p))
IsObjectTerm(term) == term.t = "object"

SaveDone == last.op = "save"
SaveSucceeded == last.op = "save" /\ error = Null
OldTerm == JSONparse(last.json).term
NewTerm == JSONparse(json).term
EditTerm == JSONparse(last.text).term
QueryPaths == SeqsUpTo(Segs, 2)

\* C1 as stated: after a successful save of a document whose root is an
\* object or array, every path disjoint from the node's path (neither a
\* prefix of the other) reads the same value, or the same absence, in the new
\* document as in the old one.
C1_Original ==
  (SaveSucceeded /\ JSONparse(last.json).ok /\ IsContainer(OldTerm))
    => \A q \in QueryPaths :
         Disjoint(last.node.path.segs, q)
           => ReadTerm(NewTerm, PathOf(q)) = ReadTerm(OldTerm, PathOf(q))

\* C1 as amended: with two segments taken as the same when they address the
\* same property key (0 and "0"), every disjoint path that read a value in
\* the old document reads the same value in the new one, and one that was
\* absent is absent or reads null (the padding of an array written past its
\* end).
C1_Frame ==
  (SaveSucceeded /\ JSONparse(last.json).ok /\ IsContainer(OldTerm))
    => \A q \in QueryPaths :
         KeyDisjoint(last.node.path.segs, q)
           => LET old == ReadTerm(OldTerm, PathOf(q))
                  new == ReadTerm(NewTerm, PathOf(q))
              IN IF old # Undefined THEN new = old ELSE new \in {Undefined, Null}
C1_Witness ==
  /\ SaveSucceeded /\ JSONparse(last.json).ok /\ IsContainer(OldTerm)
  /\ Len(last.node.path.segs) = 2
  /\ json # last.json
  /\ \E q \in QueryPaths :
       /\ KeyDisjoint(last.node.path.segs, q)
       /\ Len(q) = 2 /\ q[1] = last.node.path.segs[1]
       /\ ReadTerm(OldTerm, PathOf(q)) # Undefined

\* C2 as stated: after a successful save the value at the node's path in the
\* new document is the shallow merge of the current value C and the parsed
\* edit E when the node is not a single keyless row and both are plain
\* objects, and E itself in every other case.
MergeTerm(c, e) ==
  ObjectOf([k \in DOMAIN c.props \cup DOMAIN e.props |->
              IF k \in DOMAIN e.props THEN e.props[k] ELSE c.props[k]])
IsSingleKeylessRow(nodeRows) == Len(nodeRows) = 1 /\ nodeRows[1].key = Undefined
ExpectedAtPath ==
  LET c == ReadTerm(RootObjOf(last.json), last.node.path)
  IN IF ~IsSingleKeylessRow(last.node.text) /\ IsObjectTerm(c) /\ IsObjectTerm(EditTerm)
     THEN MergeTerm(c, EditTerm)
     ELSE EditTerm
C2_WriteMode ==
  SaveSucceeded => ReadTerm(NewTerm, last.node.path) = ExpectedAtPath
\* A string segment that is no index lands on an array of the working root.
KeyIntoArray(term, segs) ==
  \E i \in 1..Len(segs) :
    /\ ReadTerm(term, PathOf(SubSeq(segs, 1, i - 1))).t = "array"
    /\ ~IsIndexKey(segs[i].key)
\* The node's only row has the key "", which the test of line 115 takes for
\* no key.
IsSingleEmptyKeyRow(nodeRows) == Len(nodeRows) = 1 /\ nodeRows[1].key = Str("")
\* C2 away from those two cases.
C2_WriteModeObjectsOnly ==
  (/\ SaveSucceeded
   /\ ~KeyIntoArray(RootObjOf(last.json), last.node.path.segs)
   /\ ~IsSingleEmptyKeyRow(last.node.text))
    => ReadTerm(NewTerm, last.node.path) = ExpectedAtPath

\* C3: a save that ends with an error changes nothing: the document, the
\* selected node and the pending re-selections are what they were; invalid
\* edited text is reported as "Invalid JSON ...", no selected node as "No
\* target node selected"; and a save that changed the document reports no
\* error.
C3_FailedSave ==
  SaveDone
    => /\ error # Null
          => json = last.json /\ selectedNode = last.node /\ timers = last.timers
       /\ ~JSONparse(last.text).ok => error = InvalidJson
       /\ (JSONparse(last.text).ok /\ last.node = Undefined) => error = NoTarget
       /\ (JSONparse(last.text).ok /\ last.node # Undefined) => error = Null
       /\ json # last.json => error = Null
C3_Witness ==
  /\ SaveDone /\ error = InvalidJson /\ last.node # Undefined
  /\ Len(timers) = 1 /\ JSONparse(json).ok

\* C7: when the document text does not parse, a save with a selected node
\* and valid edited text succeeds and the new document is the serialization
\* of setValueAtPath({}, nodePath, parsedEdit).
C7_CorruptRecovery ==
  (SaveDone /\ ~JSONparse(last.json).ok /\ last.node # Undefined /\ JSONparse(last.text).ok)
    => /\ error = Null
       /\ LET o == Alloc("empty", ObjectOf(NoProps))
              e == Alloc("edit", EditTerm)
              r == setValueAtPath(o.h @@ e.h, o.v, last.node.path, e.v)
          IN json = JsonText(Stringify(r.h, r.v))
C7_Witness ==
  /\ SaveDone /\ ~JSONparse(last.json).ok /\ last.node # Undefined
  /\ JSONparse(last.text).ok /\ IsContainer(EditTerm)
  /\ Len(last.node.path.segs) = 2 /\ last.node.path.segs[2].num
  /\ ~IsSingleKeylessRow(last.node.text)

(***************************************************************************)
(* Re-selection, checked under LiveSpec.                                   *)
(***************************************************************************)
\* Two paths are equal: the same length and pairwise the same segments, a
\* string never the same as a number.
SamePath(a, b) == a = b
ReselectRight ==
  last.op = "reselect"
    => LET same == {i \in 1..Len(nodes) : SamePath(nodes[i].path, last.node.path)}
       IN IF same # {} THEN \E i \in same : selectedNode = nodes[i]
          ELSE selectedNode = last.sel
ScheduledOnce ==
  SaveSucceeded => timers = Append(last.timers, last.node)
\* C10: every successful save schedules one deferred re-selection, which
\* eventually runs; when it runs, the selected node becomes a node of the
\* current collection whose path equals the saved node's path if there is
\* one, and stays what it was otherwise.
C10_Reselection ==
  /\ [](ReselectRight /\ ScheduledOnce)
  /\ \A k \in 1..MaxSaves : (fired + Len(timers) >= k) ~> (fired >= k)
C10_Witness ==
  /\ last.op = "reselect" /\ fired = 2
  /\ selectedNode # last.sel
  /\ selectedNode.path = last.node.path
  /\ selectedNode # last.node

=============================================================================
